---- MODULE Spec2Model ----
(***************************************************************************)
(* Model of aiosqlite3.connection: one Connection object, the worker pool  *)
(* it dispatches blocking driver calls to, and the callers on the event    *)
(* loop.  Every action is one run of loop code between two suspension      *)
(* points (a call up to its first `yield from`, or the resumption of a     *)
(* suspended coroutine), or one blocking call executed by a pool thread.   *)
(***************************************************************************)
EXTENDS Integers, Sequences, FiniteSets, TLC

\* Bounds of the model.
MaxOps == 3      \* calls made on the Connection by user code in one behaviour
MaxGens == 1     \* executescript generator objects created and not yet driven

\* self._conn = None
Null == 0

VARIABLES
    constructed,     \* "none" | "ok" | "raised": outcome of Connection.__init__
    cst,             \* the check_same_thread argument given to the constructor
    echo,            \* self._echo
    modpc,           \* module-level _connect(): "none" (not running) | "awaiting" | "failed"
    conn,            \* self._conn: Null or the id of the stored handle
    subs,            \* the futures of run_in_executor, in submission order
    live,            \* driver side: handles opened and not yet closed
    nextH,           \* number of handles the driver has opened so far
    gens,            \* executescript generator objects created and not yet driven
    ret,             \* what the latest call or resumption handed to its caller,
                     \* and the message it gave to the logger
    connectedSince,  \* history: a connect succeeded since construction / the last close
    alive,           \* the interpreter process is running
    calls            \* number of calls user code has made on the Connection

vars == <<constructed, cst, echo, modpc, conn, subs, live, nextH, gens, ret,
          connectedSince, alive, calls>>

StmtKinds == {"cursor", "execute", "executemany"}

\* The future of run_in_executor has a result or an exception.
Done(s) == s.status \in {"ok", "fail"}

\* The driver call of the job has returned or raised in its pool thread; the
\* loop has not yet been told (the result travels by call_soon_threadsafe).
Ran(s) == s.status \in {"ranok", "ranfail"}

\* Jobs during which the driver works on the handle with the interpreter
\* lock released: execute / executemany, and executescript.
SqlKinds == {"stmt", "executescript"}

\* Kinds of submission made by cursor (no SQL is run) and by execute /
\* executemany (SQL is run on the handle); both come back in a wrapper.
WrapKinds == {"cursor", "stmt"}

\* Connection.closed
closed == IF conn # Null THEN FALSE ELSE TRUE

\* The Connection object is in the hands of user code: built directly, or
\* returned by the module-level _connect().
Usable == alive /\ constructed = "ok" /\ modpc = "none"

\* Every call user code makes on the Connection takes one unit of the
\* budget of the behaviour; every submission comes from one call.
Room == calls < MaxOps

Result(op, res, fut) == [op |-> op, res |-> res, fut |-> fut, log |-> "none"]

\* Connection._execute: partial(func, ...) handed to loop.run_in_executor;
\* the future is appended, nothing is run on the calling context.
Submit(kind, h) ==
    Append(subs, [kind |-> kind, h |-> h, status |-> "pending", seen |-> FALSE,
                  scope |-> "none", rel |-> 0, hit |-> FALSE])

\* logger.debug / logger.info under `if self._echo:`
Log(msg) == IF echo THEN msg ELSE "none"

\* The logging call (with its eager str(parameters)) sits in the method body
\* without a try: when diagnostics are on (e) and the sink raises (sf), the
\* exception leaves the method at that line.
LogFault(e, sf) == e /\ sf


Init ==
    /\ constructed = "none"
    /\ cst = FALSE
    /\ echo = FALSE
    /\ modpc = "none"
    /\ conn = Null
    /\ subs = <<>>
    /\ live = {}
    /\ nextH = 0
    /\ gens = 0
    /\ ret = Result("none", "none", 0)
    /\ connectedSince = FALSE
    /\ alive = TRUE
    /\ calls = 0

\* A constructor that forgets the check_same_thread test.
InitRaisesNoCheck(c) == FALSE

\* Connection.__init__: `if check_same_thread: raise ValueError`
InitRaises(c) == c

\* Connection(database, echo=e, check_same_thread=c) called by user code.
Construct(c, e) ==
    /\ alive
    /\ constructed = "none"
    /\ cst' = c
    /\ IF InitRaises(c)
       THEN /\ constructed' = "raised"
            /\ ret' = Result("init", "ValueError", 0)
            /\ UNCHANGED echo
       ELSE /\ constructed' = "ok"
            /\ echo' = e
            /\ ret' = Result("init", "conn", 0)
    /\ UNCHANGED <<modpc, conn, subs, live, nextH, gens, connectedSince, alive, calls>>

\* Module-level _connect(): builds the Connection and runs conn._connect()
\* up to its `yield from`; the Connection is returned only after that.
ModuleConnect(c, e) ==
    /\ alive
    /\ constructed = "none"
    /\ cst' = c
    /\ IF InitRaises(c)
       THEN /\ constructed' = "raised"
            /\ modpc' = "failed"
            /\ ret' = Result("connect", "ValueError", 0)
            /\ UNCHANGED <<echo, subs>>
       ELSE /\ constructed' = "ok"
            /\ echo' = e
            /\ modpc' = "awaiting"
            /\ subs' = Submit("open", Null)
            /\ ret' = Result("connect", "pending", Len(subs) + 1)
    /\ calls' = calls + 1
    /\ UNCHANGED <<conn, live, nextH, gens, connectedSince, alive>>

\* Connection._connect() called on the object by user code, up to `yield from`.
ConnectCall ==
    /\ Usable
    /\ Room
    /\ subs' = Submit("open", Null)
    /\ ret' = Result("connect", "pending", Len(subs) + 1)
    /\ calls' = calls + 1
    /\ UNCHANGED <<constructed, cst, echo, modpc, conn, live, nextH, gens,
                   connectedSince, alive>>

\* A pool thread makes the bound blocking call of submission i; ok is
\* whether the driver call returns (ok) or raises (~ok).  A call that enters
\* the driver on a handle already closed always raises.  A close that
\* closes the handle marks (hit) every job still in the pool on that handle:
\* the bound call is not one step of its thread (the driver releases the
\* interpreter lock, cursor() of a factory class and iterdump run Python
\* code), so the thread may have entered the call before the close, and
\* such a job can still return its value.
WorkerRun(i, ok) ==
    /\ alive
    /\ i \in 1..Len(subs)
    /\ subs[i].status = "pending"
    /\ LET s == subs[i] IN
       IF s.kind = "open"
       THEN IF ok
            THEN /\ nextH' = nextH + 1
                 /\ live' = live \cup {nextH + 1}
                 /\ subs' = [subs EXCEPT ![i].status = "ranok", ![i].h = nextH + 1]
            ELSE /\ subs' = [subs EXCEPT ![i].status = "ranfail"]
                 /\ UNCHANGED <<live, nextH>>
       ELSE IF s.kind = "close"
       THEN /\ subs' = [k \in 1..Len(subs) |->
                          IF k = i
                          THEN [s EXCEPT !.status = IF ok THEN "ranok" ELSE "ranfail"]
                          ELSE IF /\ ok /\ s.h \in live
                                  /\ subs[k].status = "pending"
                                  /\ subs[k].h = s.h
                                  /\ subs[k].kind \notin {"open", "close"}
                               THEN [subs[k] EXCEPT !.hit = TRUE]
                               ELSE subs[k]]
            /\ live' = IF ok THEN live \ {s.h} ELSE live
            /\ UNCHANGED nextH
       ELSE /\ subs' = [subs EXCEPT
                          ![i].status = IF ok /\ (s.h \in live \/ s.hit)
                                        THEN "ranok" ELSE "ranfail",
                          ![i].hit = FALSE]
            /\ UNCHANGED <<live, nextH>>
    /\ UNCHANGED <<constructed, cst, echo, modpc, conn, gens, ret, connectedSince, alive, calls>>

\* The loop runs the callback that run_in_executor chained to the pool
\* future: the asyncio future of submission i takes the result or the
\* exception of the driver call.
LoopResolve(i) ==
    /\ alive
    /\ i \in 1..Len(subs)
    /\ Ran(subs[i])
    /\ subs' = [subs EXCEPT ![i].status = IF @ = "ranok" THEN "ok" ELSE "fail"]
    /\ UNCHANGED <<constructed, cst, echo, modpc, conn, live, nextH, gens, ret,
                   connectedSince, alive, calls>>

\* A _connect that drops the handle it was given.
ConnectStoreNever(status, h, cur) == cur

\* `self._conn = yield from func`: the assignment happens only when the
\* future yields a value; a failure is raised out of the `yield from`.
ConnectStore(status, h, cur) == IF status = "ok" THEN h ELSE cur

\* What Connection._connect hands to its caller once the open future is
\* resolved: the failure of the future, the exception of the logging line, or
\* a normal return (the Connection itself through the module-level _connect).
ConnectOutcome(e, sf, status, viaModule) ==
    IF status # "ok" THEN "failure"
    ELSE IF LogFault(e, sf) THEN "LogFault"
    ELSE IF viaModule THEN "conn" ELSE "none"

\* Connection._connect resumed once the open future is resolved.
ConnectResume(i, sf) ==
    /\ alive
    /\ i \in 1..Len(subs)
    /\ subs[i].kind = "open"
    /\ Done(subs[i])
    /\ ~subs[i].seen
    /\ conn' = ConnectStore(subs[i].status, subs[i].h, conn)
    /\ connectedSince' = IF subs[i].status = "ok" THEN TRUE ELSE connectedSince
    /\ LET out == ConnectOutcome(echo, sf, subs[i].status, modpc = "awaiting") IN
       /\ modpc' = IF out \in {"conn", "none"} THEN "none"
                   ELSE IF modpc = "awaiting" THEN "failed" ELSE modpc
       /\ ret' = [Result("connect", out, i) EXCEPT
                     !.log = IF out \in {"conn", "none"} THEN Log("connect ok") ELSE "none"]
    /\ subs' = [subs EXCEPT ![i].seen = TRUE]
    /\ UNCHANGED <<constructed, cst, echo, live, nextH, gens, alive, calls>>

\* A close that never takes the early return.
CloseIsNoopNever(cn) == FALSE

\* Connection.close: `if not self._conn: return`
CloseIsNoop(cn) == cn = Null

\* Connection.close() driven up to its first suspension (or its return).
CloseCall ==
    /\ Usable
    /\ Room
    /\ IF CloseIsNoop(conn)
       THEN /\ ret' = Result("close", "none", 0)
            /\ UNCHANGED subs
       ELSE /\ subs' = Submit("close", conn)
            /\ ret' = Result("close", "pending", Len(subs) + 1)
    /\ calls' = calls + 1
    /\ UNCHANGED <<constructed, cst, echo, modpc, conn, live, nextH, gens,
                   connectedSince, alive>>

\* `res = yield from ...; self._conn = None`: the assignment is skipped when
\* the `yield from` raises.
CloseClear(status, cur) == IF status = "ok" THEN Null ELSE cur

\* What Connection.close hands to its caller once the close future is
\* resolved.
CloseOutcome(e, sf, status) ==
    IF status # "ok" THEN "failure"
    ELSE IF LogFault(e, sf) THEN "LogFault" ELSE "none"

\* A close that cancels whatever is still in flight when it completes.
CloseResumeCancels(i, sf) ==
    /\ alive
    /\ i \in 1..Len(subs)
    /\ subs[i].kind = "close"
    /\ Done(subs[i])
    /\ ~subs[i].seen
    /\ conn' = CloseClear(subs[i].status, conn)
    /\ LET out == CloseOutcome(echo, sf, subs[i].status) IN
       ret' = [Result("close", out, i) EXCEPT
                  !.log = IF out = "none" THEN Log("close ok") ELSE "none"]
    /\ subs' = [k \in 1..Len(subs) |->
                  IF k = i THEN [subs[k] EXCEPT !.seen = TRUE]
                  ELSE IF ~Done(subs[k])
                       THEN [subs[k] EXCEPT !.status = "fail"]
                       ELSE subs[k]]
    /\ connectedSince' = FALSE
    /\ UNCHANGED <<constructed, cst, echo, modpc, live, nextH, gens, alive, calls>>

\* Connection.close resumed once the close future is resolved.
CloseResume(i, sf) ==
    /\ alive
    /\ i \in 1..Len(subs)
    /\ subs[i].kind = "close"
    /\ Done(subs[i])
    /\ ~subs[i].seen
    /\ conn' = CloseClear(subs[i].status, conn)
    /\ LET out == CloseOutcome(echo, sf, subs[i].status) IN
       ret' = [Result("close", out, i) EXCEPT
                  !.log = IF out = "none" THEN Log("close ok") ELSE "none"]
    /\ subs' = [subs EXCEPT ![i].seen = TRUE]
    /\ connectedSince' = FALSE
    /\ UNCHANGED <<constructed, cst, echo, modpc, live, nextH, gens, alive, calls>>

\* What a call of cursor / execute / executemany does: execute and
\* executemany log first; then the attribute lookup self._conn.<op> raises
\* AttributeError on None; otherwise the operation is submitted and wrapped.
StmtOutcome(e, sf, op, cn) ==
    IF op # "cursor" /\ LogFault(e, sf) THEN "LogFault"
    ELSE IF cn = Null THEN "AttributeError" ELSE "wrapper"

\* Connection.cursor / execute / executemany: plain functions.
StmtCall(op, sf) ==
    /\ Usable
    /\ op \in StmtKinds
    /\ Room
    /\ LET out == StmtOutcome(echo, sf, op, conn) IN
       /\ subs' = IF out = "wrapper"
                  THEN Submit(IF op = "cursor" THEN "cursor" ELSE "stmt", conn)
                  ELSE subs
       /\ ret' = [Result(op, out, IF out = "wrapper" THEN Len(subs) + 1 ELSE 0) EXCEPT
                     !.log = IF op = "cursor" \/ out = "LogFault" THEN "none" ELSE Log(op)]
    /\ calls' = calls + 1
    /\ UNCHANGED <<constructed, cst, echo, modpc, conn, live, nextH, gens,
                   connectedSince, alive>>

\* Connection.executescript(sql_script): the body contains `yield from`, so
\* the call only builds a generator object; none of the body has run.
ExecutescriptCall ==
    /\ Usable
    /\ gens < MaxGens
    /\ Room
    /\ gens' = gens + 1
    /\ ret' = Result("executescript", "generator", 0)
    /\ calls' = calls + 1
    /\ UNCHANGED <<constructed, cst, echo, modpc, conn, subs, live, nextH,
                   connectedSince, alive>>

\* What driving the generator of executescript up to its `yield from` does.
DriveOutcome(e, sf, cn) ==
    IF LogFault(e, sf) THEN "LogFault"
    ELSE IF cn = Null THEN "AttributeError" ELSE "pending"

\* The generator of executescript driven up to its `yield from`.
ExecutescriptDrive(sf) ==
    /\ alive
    /\ gens > 0
    /\ gens' = gens - 1
    /\ LET out == DriveOutcome(echo, sf, conn) IN
       /\ subs' = IF out = "pending" THEN Submit("executescript", conn) ELSE subs
       /\ ret' = [Result("drive", out, IF out = "pending" THEN Len(subs) + 1 ELSE 0) EXCEPT
                     !.log = IF out = "LogFault" THEN "none" ELSE Log("executescript")]
    /\ UNCHANGED <<constructed, cst, echo, modpc, conn, live, nextH,
                   connectedSince, alive, calls>>

\* An executescript that drops the connection when the script fails.
ExecutescriptResumeClears(i) ==
    /\ alive
    /\ i \in 1..Len(subs)
    /\ subs[i].kind = "executescript"
    /\ Done(subs[i])
    /\ ~subs[i].seen
    /\ ret' = Result("drive", IF subs[i].status = "ok" THEN "wrapper_of_raw" ELSE "failure", i)
    /\ subs' = [subs EXCEPT ![i].seen = TRUE]
    /\ conn' = IF subs[i].status = "ok" THEN conn ELSE Null
    /\ UNCHANGED <<constructed, cst, echo, modpc, live, nextH, gens,
                   connectedSince, alive, calls>>

\* The generator of executescript resumed: `coro` is the resolved raw cursor
\* (or the failure is raised), and the wrapper is built around it.
ExecutescriptResume(i) ==
    /\ alive
    /\ i \in 1..Len(subs)
    /\ subs[i].kind = "executescript"
    /\ Done(subs[i])
    /\ ~subs[i].seen
    /\ ret' = Result("drive", IF subs[i].status = "ok" THEN "wrapper_of_raw" ELSE "failure", i)
    /\ subs' = [subs EXCEPT ![i].seen = TRUE]
    /\ UNCHANGED <<constructed, cst, echo, modpc, conn, live, nextH, gens,
                   connectedSince, alive, calls>>

\* The caller suspends on the wrapper returned by cursor / execute /
\* executemany: it yields the Cursor built from the raw cursor, or raises
\* the failure of the future.
AwaitWrapper(i) ==
    /\ alive
    /\ i \in 1..Len(subs)
    /\ subs[i].kind \in WrapKinds
    /\ Done(subs[i])
    /\ ~subs[i].seen
    /\ ret' = Result("await", IF subs[i].status = "ok" THEN "cursor" ELSE "failure", i)
    /\ subs' = [subs EXCEPT ![i].seen = TRUE]
    /\ UNCHANGED <<constructed, cst, echo, modpc, conn, live, nextH, gens,
                   connectedSince, alive, calls>>

\* What a call of one of the operations generated by delegate_to_executor
\* (commit, rollback, create_function, create_aggregate, create_collation,
\* interrupt, set_authorizer, set_progress_handler, set_trace_callback,
\* enable_load_extension, load_extension, iterdump) does: the method is
\* bound on self._conn, which faults on None; otherwise it is submitted and
\* the future itself is returned.
DelegateOutcome(cn) == IF cn = Null THEN "AttributeError" ELSE "future"

\* A delegated operation called by user code.
DelegateCall ==
    /\ Usable
    /\ Room
    /\ LET out == DelegateOutcome(conn) IN
       /\ subs' = IF out = "future" THEN Submit("delegate", conn) ELSE subs
       /\ ret' = Result("delegate", out, IF out = "future" THEN Len(subs) + 1 ELSE 0)
    /\ calls' = calls + 1
    /\ UNCHANGED <<constructed, cst, echo, modpc, conn, live, nextH, gens,
                   connectedSince, alive>>

\* The caller suspends on the future of a delegated operation: it yields
\* the value of the driver call, or raises its failure.
AwaitFuture(i) ==
    /\ alive
    /\ i \in 1..Len(subs)
    /\ subs[i].kind = "delegate"
    /\ Done(subs[i])
    /\ ~subs[i].seen
    /\ ret' = Result("await", IF subs[i].status = "ok" THEN "value" ELSE "failure", i)
    /\ subs' = [subs EXCEPT ![i].seen = TRUE]
    /\ UNCHANGED <<constructed, cst, echo, modpc, conn, live, nextH, gens,
                   connectedSince, alive, calls>>

\* The object returned by executescript used as a scope: it is a plain
\* generator, which has no scope protocol, so entry faults and nothing of
\* the body of executescript has run.  The caller who keeps a reference
\* (keeps) still holds the undriven generator; otherwise it is dropped.
GenScopeEnter(keeps) ==
    /\ alive
    /\ Room
    /\ gens > 0
    /\ gens' = IF keeps THEN gens ELSE gens - 1
    /\ ret' = Result("enter", "ScopeFault", 0)
    /\ calls' = calls + 1
    /\ UNCHANGED <<constructed, cst, echo, modpc, conn, subs, live, nextH,
                   connectedSince, alive>>

\* The wrapper returned by cursor / execute / executemany entered as a scope:
\* entry performs the suspend-mode resolution; a failure is raised at entry
\* and no resource is bound.
ScopeEnter(i) ==
    /\ alive
    /\ i \in 1..Len(subs)
    /\ subs[i].kind \in WrapKinds
    /\ Done(subs[i])
    /\ ~subs[i].seen
    /\ ret' = Result("enter", IF subs[i].status = "ok" THEN "cursor" ELSE "failure", i)
    /\ subs' = [subs EXCEPT ![i].seen = TRUE,
                            ![i].scope = IF subs[i].status = "ok" THEN "in" ELSE "failed"]
    /\ UNCHANGED <<constructed, cst, echo, modpc, conn, live, nextH, gens,
                   connectedSince, alive, calls>>

\* A scope exit that releases only when the body ended normally.
ScopeExitLeaksOnRaise(i, raises) ==
    /\ alive
    /\ i \in 1..Len(subs)
    /\ subs[i].scope = "in"
    /\ subs' = [subs EXCEPT ![i].scope = "out",
                            ![i].rel = IF raises THEN @ ELSE @ + 1]
    /\ ret' = Result("exit", IF raises THEN "BodyFault" ELSE "none", i)
    /\ UNCHANGED <<constructed, cst, echo, modpc, conn, live, nextH, gens,
                   connectedSince, alive, calls>>

\* The scope of a wrapper is left, the body having raised or not: the
\* release operation (close) of the bound Cursor is invoked.
ScopeExit(i, raises) ==
    /\ alive
    /\ i \in 1..Len(subs)
    /\ subs[i].scope = "in"
    /\ subs' = [subs EXCEPT ![i].scope = "out", ![i].rel = @ + 1]
    /\ ret' = Result("exit", IF raises THEN "BodyFault" ELSE "none", i)
    /\ UNCHANGED <<constructed, cst, echo, modpc, conn, live, nextH, gens,
                   connectedSince, alive, calls>>

\* The close of a handle (submission i) and a job on the same handle
\* (submission j) are in the pool together, run_in_executor putting no order
\* between them and the pool having several threads: either both are still
\* to finish, or the close has closed the handle under the job (hit), its
\* future resolved and close() resumed or not.
Racing(i, j) ==
    /\ i \in 1..Len(subs) /\ j \in 1..Len(subs)
    /\ subs[i].kind = "close"
    /\ subs[j].kind \in SqlKinds
    /\ subs[j].status = "pending"
    /\ subs[j].h = subs[i].h
    /\ \/ subs[i].status = "pending" /\ subs[i].h \in live
       \/ subs[i].status \in {"ranok", "ok"} /\ subs[j].hit

\* The close runs while execute / executemany / executescript is inside
\* the driver on the same handle, two pool threads using one handle at the
\* same time: the interpreter can die, at once or some time after the close
\* has finished, and no future is resolved any more.
RaceCrash(i, j) ==
    /\ alive
    /\ Racing(i, j)
    /\ alive' = FALSE
    /\ UNCHANGED <<constructed, cst, echo, modpc, conn, subs, live, nextH, gens,
                   ret, connectedSince, calls>>

\* The close runs while executescript is inside the driver on the same
\* handle: the pool thread of the script never comes back, its future stays
\* unresolved; the loop and the other threads go on.
RaceHang(i, j) ==
    /\ alive
    /\ Racing(i, j)
    /\ subs[j].kind = "executescript"
    /\ subs' = [subs EXCEPT ![j].status = "stuck", ![j].hit = FALSE]
    /\ UNCHANGED <<constructed, cst, echo, modpc, conn, live, nextH, gens, ret,
                   connectedSince, alive, calls>>

\* Connection.__enter__: `with conn:` binds the Connection itself.
ConnEnter ==
    /\ Usable
    /\ Room
    /\ ret' = Result("enter", "conn", 0)
    /\ calls' = calls + 1
    /\ UNCHANGED <<constructed, cst, echo, modpc, conn, subs, live, nextH, gens,
                   connectedSince, alive>>

\* Connection.__exit__ is a coroutine function: the `with` statement calls it,
\* gets a coroutine object and drops it; the body (`yield from self.close()`)
\* never runs.
ConnExit ==
    /\ Usable
    /\ Room
    /\ ret' = Result("exit", "coroutine", 0)
    /\ calls' = calls + 1
    /\ UNCHANGED <<constructed, cst, echo, modpc, conn, subs, live, nextH, gens,
                   connectedSince, alive>>

Next ==
    \/ \E c \in BOOLEAN, e \in BOOLEAN : Construct(c, e)
    \/ \E c \in BOOLEAN, e \in BOOLEAN : ModuleConnect(c, e)
    \/ ConnectCall
    \/ \E i \in 1..MaxOps, ok \in BOOLEAN : WorkerRun(i, ok)
    \/ \E i \in 1..MaxOps : LoopResolve(i)
    \/ \E i \in 1..MaxOps, sf \in BOOLEAN : ConnectResume(i, sf)
    \/ CloseCall
    \/ \E i \in 1..MaxOps, sf \in BOOLEAN : CloseResume(i, sf)
    \/ \E op \in StmtKinds, sf \in BOOLEAN : StmtCall(op, sf)
    \/ ExecutescriptCall
    \/ \E sf \in BOOLEAN : ExecutescriptDrive(sf)
    \/ \E i \in 1..MaxOps : ExecutescriptResume(i)
    \/ \E i \in 1..MaxOps : AwaitWrapper(i)
    \/ DelegateCall
    \/ \E i \in 1..MaxOps : AwaitFuture(i)
    \/ \E keeps \in BOOLEAN : GenScopeEnter(keeps)
    \/ \E i \in 1..MaxOps : ScopeEnter(i)
    \/ \E i \in 1..MaxOps, raises \in BOOLEAN : ScopeExit(i, raises)
    \/ ConnEnter
    \/ ConnExit
    \/ \E i \in 1..MaxOps, j \in 1..MaxOps : RaceCrash(i, j)
    \/ \E i \in 1..MaxOps, j \in 1..MaxOps : RaceHang(i, j)

Spec == Init /\ [][Next]_vars

\* Nothing is outstanding: every future has been observed by its caller and
\* no generator of executescript waits to be driven.
Quiet == gens = 0 /\ \A i \in 1..Len(subs) : subs[i].seen

\* The callers issue one operation at a time: a call is made only when the
\* previous one has been suspended on to its end.  No two jobs are ever in
\* the pool together, so the races have no step here.
SeqNext ==
    \/ \E c \in BOOLEAN, e \in BOOLEAN : Construct(c, e)
    \/ \E c \in BOOLEAN, e \in BOOLEAN : ModuleConnect(c, e)
    \/ Quiet /\ ConnectCall
    \/ \E i \in 1..MaxOps, ok \in BOOLEAN : WorkerRun(i, ok)
    \/ \E i \in 1..MaxOps : LoopResolve(i)
    \/ \E i \in 1..MaxOps, sf \in BOOLEAN : ConnectResume(i, sf)
    \/ Quiet /\ CloseCall
    \/ \E i \in 1..MaxOps, sf \in BOOLEAN : CloseResume(i, sf)
    \/ Quiet /\ \E op \in StmtKinds, sf \in BOOLEAN : StmtCall(op, sf)
    \/ Quiet /\ ExecutescriptCall
    \/ \E sf \in BOOLEAN : ExecutescriptDrive(sf)
    \/ \E i \in 1..MaxOps : ExecutescriptResume(i)
    \/ \E i \in 1..MaxOps : AwaitWrapper(i)
    \/ Quiet /\ DelegateCall
    \/ \E i \in 1..MaxOps : AwaitFuture(i)
    \/ \E keeps \in BOOLEAN : GenScopeEnter(keeps)
    \/ \E i \in 1..MaxOps : ScopeEnter(i)
    \/ \E i \in 1..MaxOps, raises \in BOOLEAN : ScopeExit(i, raises)
    \/ Quiet /\ ConnEnter
    \/ Quiet /\ ConnExit

SeqSpec == Init /\ [][SeqNext]_vars

\* The pool is fair: run_in_executor queues the job on a ThreadPoolExecutor,
\* and every queued job is taken by one of its threads (several jobs may be
\* running at the same time), as long as the interpreter lives.
FairSpec ==
    Spec /\ \A i \in 1..MaxOps : /\ WF_vars(\E ok \in BOOLEAN : WorkerRun(i, ok))
                                  /\ WF_vars(LoopResolve(i))

----------------------------------------------------------------------------
\* Properties of the Connection life cycle.

AllKinds == {"cursor", "stmt", "executescript"}

\* C1: closed is true exactly when no connect has succeeded since
\* construction or since the last close (failing operations included).
C1_ClosedIffNoConnectSince == closed <=> ~connectedSince

\* C2: when the close of an open Connection resolves, with a value or with a
\* failure, the handle reference is cleared and closed is true afterwards.
C2_CloseAlwaysClears ==
    [][\A i \in 1..MaxOps : (\E sf \in BOOLEAN : CloseResume(i, sf))
                                => (conn' = Null /\ closed')]_vars

\* C3: cursor, execute, executemany and executescript called while the handle
\* is null raise a usage fault at the call site and submit nothing.
C3_NotOpenFaultsAtCall ==
    [][(conn = Null /\ ((\E op \in StmtKinds, sf \in BOOLEAN : StmtCall(op, sf)) \/ ExecutescriptCall))
          => (ret'.res = "AttributeError" /\ subs' = subs)]_vars

\* C4: a Connection never has more than one live (opened, not yet closed)
\* underlying handle.
C4_AtMostOneLiveHandle == Cardinality(live) <= 1

\* C5: for every handle the close-handle operation is submitted to the
\* worker pool at most once, overlapping close() calls included.
C5_CloseSubmittedOnce ==
    \A h \in 1..MaxOps :
        Cardinality({i \in 1..Len(subs) :
                        subs[i].kind = "close" /\ subs[i].h = h}) <= 1

\* C6: a failed open is raised to the caller of connect and leaves the
\* handle reference as it was (null stays null, closed stays true, the
\* module-level connect returns no Connection); a successful open stores
\* the new handle and the Connection is open.
C6_ConnectOutcome ==
    [][\A i \in 1..MaxOps : (\E sf \in BOOLEAN : ConnectResume(i, sf)) =>
          IF subs[i].status = "fail"
          THEN /\ ret'.res = "failure"
               /\ conn' = conn
               /\ closed' = closed
               /\ (modpc = "awaiting" => modpc' = "failed")
          ELSE /\ conn' = subs[i].h
               /\ conn' \in live
               /\ ~closed'
               /\ (modpc = "awaiting" /\ ret'.res # "LogFault"
                       => (modpc' = "none" /\ ret'.res = "conn"))]_vars

\* A failed connect left the Connection unconnected, and a later connect
\* on the same object succeeded and stored its handle.
C6_Witness ==
    \E i, j \in 1..Len(subs) :
        /\ i < j
        /\ subs[i].kind = "open" /\ subs[i].status = "fail" /\ subs[i].seen
        /\ subs[j].kind = "open" /\ subs[j].status = "ok" /\ subs[j].seen
        /\ conn = subs[j].h
        /\ ~closed

\* C7: close() on a Connection whose handle is null returns at once, submits
\* nothing and changes nothing of the Connection.
C7_CloseOnClosedIsNoop ==
    [][(CloseCall /\ conn = Null) =>
          /\ ret'.res = "none"
          /\ UNCHANGED <<constructed, cst, echo, modpc, conn, subs, live, nextH,
                         gens, connectedSince, alive>>]_vars

\* close() was called again after a close that succeeded.
C7_Witness ==
    /\ ret = Result("close", "none", 0)
    /\ closed
    /\ \E i \in 1..Len(subs) :
          subs[i].kind = "close" /\ subs[i].status = "ok" /\ subs[i].seen

\* C8: the executescript call itself, on an open Connection, submits exactly
\* one operation and returns a wrapper around the still-pending future.
C8_ExecutescriptLikeExecute ==
    [][(ExecutescriptCall /\ conn # Null) =>
          /\ Len(subs') = Len(subs) + 1
          /\ ret'.res = "wrapper"
          /\ subs'[ret'.fut].status = "pending"]_vars

\* C9: when a statement operation on an open Connection fails in the driver,
\* the caller suspended on it observes the failure, and neither the run of
\* the operation nor its observation changes the handle reference or closed.
C9_StmtFailureKeepsOpen ==
    [][\A i \in 1..MaxOps :
          /\ (WorkerRun(i, FALSE) /\ subs[i].kind \in AllKinds)
                => (conn' = conn /\ closed' = closed)
          /\ ((AwaitWrapper(i) \/ ScopeEnter(i) \/ ExecutescriptResume(i))
                 /\ subs[i].status = "fail" /\ conn # Null)
                => (ret'.res = "failure" /\ conn' = conn /\ ~closed')]_vars

\* A statement failed against the stored, live handle, its caller has seen
\* the failure, and the Connection is still open on that handle.
C9_Witness ==
    \E i \in 1..Len(subs) :
        /\ subs[i].kind = "executescript"
        /\ subs[i].status = "fail" /\ subs[i].seen
        /\ ret = Result("drive", "failure", i)
        /\ conn = subs[i].h /\ conn \in live
        /\ ~closed

\* C10: with check_same_thread set the constructor raises at once: nothing
\* is ever submitted to the pool and connect returns no Connection.
C10_ThreadAffinityRejected ==
    cst => /\ constructed = "raised"
           /\ ret.res = "ValueError"
           /\ subs = <<>>
           /\ ~Usable
           /\ conn = Null

\* connect(..., check_same_thread=True) has raised.
C10_Witness ==
    cst /\ constructed = "raised" /\ modpc = "failed" /\ subs = <<>>

\* The value a caller gets from a statement operation run directly against
\* the driver: the cursor, or the failure the driver raised.
Direct(status) == IF status = "ok" THEN "cursor" ELSE "failure"

\* C11: when the operations are issued one at a time, each reaches the
\* handle while no other operation is outstanding (so the handle sees them in
\* the order they were issued), and what the caller gets from suspending on
\* it is what the driver call produced: the cursor or the failure.
C11_SequentialMatchesDriver ==
    [][\A i \in 1..MaxOps :
          /\ (\E ok \in BOOLEAN : WorkerRun(i, ok))
                => \A j \in 1..Len(subs) : j # i => Done(subs[j])
          /\ (AwaitWrapper(i) \/ ScopeEnter(i) \/ ExecutescriptResume(i))
                => ret'.res = Direct(subs[i].status)]_vars

\* C12: a wrapper entered as a scope has its release invoked exactly once
\* when the scope is left, whether the body raised or not, and never
\* otherwise.
C12_ScopeReleasesOnce ==
    \A i \in 1..Len(subs) :
        /\ subs[i].rel <= 1
        /\ (subs[i].scope = "out" <=> subs[i].rel = 1)

\* A scope whose body raised has been left and its cursor released.
C12_Witness ==
    \E i \in 1..Len(subs) :
        /\ subs[i].scope = "out" /\ subs[i].rel = 1
        /\ ret = Result("exit", "BodyFault", i)

\* C13: whatever cursor, execute, executemany or executescript returned, the
\* caller who suspends on it and the caller who enters it as a scope both get
\* the Cursor of the resolved operation, or both get its failure.
C13_BothModesSameValue ==
    [][/\ \A i \in 1..MaxOps :
             (AwaitWrapper(i) \/ ExecutescriptResume(i) \/ ScopeEnter(i))
                => ret'.res = Direct(subs[i].status)
       /\ (\E keeps \in BOOLEAN : GenScopeEnter(keeps))
             => ret'.res \in {"cursor", "failure"}]_vars

\* C14: with diagnostics on, a failing sink changes nothing: the statement
\* is still submitted and its wrapper returned, and connect and close still
\* return normally after their state change.
C14_SinkFailureHarmless ==
    [][echo =>
          /\ \A op \in StmtKinds :
                (StmtCall(op, TRUE) /\ conn # Null)
                   => (Len(subs') = Len(subs) + 1 /\ ret'.res = "wrapper")
          /\ (ExecutescriptDrive(TRUE) /\ conn # Null) => Len(subs') = Len(subs) + 1
          /\ \A i \in 1..MaxOps :
                /\ (ConnectResume(i, TRUE) /\ subs[i].status = "ok")
                      => ret'.res \in {"conn", "none"}
                /\ (CloseResume(i, TRUE) /\ subs[i].status = "ok")
                      => ret'.res = "none"]_vars

\* C15: for the same inputs (the sink's behaviour included) every step hands
\* its caller the same outcome, and so makes the same state change and the
\* same submission, as it would with the echo flag off.
C15_EchoIsObservational ==
    [][\A sf \in BOOLEAN :
          /\ \A op \in StmtKinds :
                StmtCall(op, sf) =>
                   StmtOutcome(echo, sf, op, conn) = StmtOutcome(FALSE, sf, op, conn)
          /\ ExecutescriptDrive(sf) =>
                DriveOutcome(echo, sf, conn) = DriveOutcome(FALSE, sf, conn)
          /\ \A i \in 1..MaxOps :
                /\ ConnectResume(i, sf) =>
                      ConnectOutcome(echo, sf, subs[i].status, modpc = "awaiting")
                         = ConnectOutcome(FALSE, sf, subs[i].status, modpc = "awaiting")
                /\ CloseResume(i, sf) =>
                      CloseOutcome(echo, sf, subs[i].status)
                         = CloseOutcome(FALSE, sf, subs[i].status)]_vars

\* C16: every call of a dispatched operation on an open Connection appends
\* exactly one pending future, and runs nothing of the driver at the call.
C16_CallSubmitsOnePending ==
    [][(conn # Null /\ ( (\E op \in StmtKinds, sf \in BOOLEAN : StmtCall(op, sf))
                         \/ ExecutescriptCall \/ CloseCall ))
          => /\ Len(subs') = Len(subs) + 1
             /\ subs'[Len(subs')].status = "pending"
             /\ \A i \in 1..Len(subs) : subs'[i] = subs[i]
             /\ UNCHANGED <<live, nextH, conn>>]_vars

\* C17: a submitted operation is never dropped or cancelled, its future is
\* resolved only with the outcome of its run in the pool, the resolution
\* never changes afterwards, and under a fair pool every pending future is
\* eventually resolved.
C17_ResolvedExactlyOnce ==
    /\ [][\A i \in 1..Len(subs) :
             /\ Len(subs') >= Len(subs)
             /\ subs'[i].kind = subs[i].kind
             /\ Done(subs[i]) => subs'[i].status = subs[i].status
             /\ (~Done(subs[i]) /\ Done(subs'[i])) => LoopResolve(i)]_vars
    /\ \A i \in 1..MaxOps :
          (i <= Len(subs) /\ subs[i].status = "pending")
             ~> (i <= Len(subs) /\ Done(subs[i]))

\* The close of a handle is in the pool together with an execute,
\* executemany or executescript job on the same handle: the overlap the
\* caller is told not to make.
Overlap == \E i, j \in 1..Len(subs) : Racing(i, j)

\* C17 (amended): a submitted operation is never dropped or cancelled by the
\* Connection, its future is resolved only with the outcome of its run in
\* the pool, the resolution never changes afterwards, and under a fair pool
\* every pending future is eventually resolved, unless the close of a handle
\* comes to overlap a statement or script job on that handle.
C17_ResolvedUnlessOverlap ==
    /\ [][\A i \in 1..Len(subs) :
             /\ Len(subs') >= Len(subs)
             /\ subs'[i].kind = subs[i].kind
             /\ Done(subs[i]) => subs'[i].status = subs[i].status
             /\ (~Done(subs[i]) /\ Done(subs'[i])) => LoopResolve(i)]_vars
    /\ \A i \in 1..MaxOps :
          (i <= Len(subs) /\ subs[i].status = "pending")
             ~> ((i <= Len(subs) /\ Done(subs[i])) \/ Overlap)

\* A cursor (or a delegated operation) was submitted on a handle whose close
\* was in flight; the close succeeded and its caller resumed, and the
\* operation has been resolved all the same.
C17_Witness ==
    \E i, j \in 1..Len(subs) :
        /\ i < j
        /\ subs[i].kind = "close" /\ subs[i].status = "ok" /\ subs[i].seen
        /\ subs[j].kind \in {"cursor", "delegate"}
        /\ subs[j].h = subs[i].h
        /\ Done(subs[j])
        /\ alive

\* C18: once the close of a handle has been submitted, no statement
\* operation is submitted against that handle.
C18_NoDispatchAfterCloseSubmitted ==
    \A i, j \in 1..Len(subs) :
        (i < j /\ subs[i].kind = "close" /\ subs[j].kind \in AllKinds)
           => subs[j].h # subs[i].h

\* C19: leaving `with conn:` on an open Connection submits the close of its
\* handle.
C19_WithClosesOnExit ==
    [][(ConnExit /\ conn # Null)
          => /\ Len(subs') = Len(subs) + 1
             /\ subs'[Len(subs')].kind = "close"
             /\ subs'[Len(subs')].h = conn]_vars

====
